---------------------------- MODULE Spec2Model ----------------------------
(***************************************************************************)
(* Model of scripts/predictions2hints.py: the generator                    *)
(* divvy_by_confidence, the coordinate resolver start_end_strand and the   *)
(* streaming loop of main.                                                 *)
(*                                                                         *)
(* Probabilities are exact multiples of 1/10 (8 stands for 0.8), so the    *)
(* cumulative sums and the comparison with the threshold are exact.        *)
(* Python sequences are 0-based; TLA+ sequences are 1-based: At and NpAt   *)
(* do the shift.                                                           *)
(***************************************************************************)
EXTENDS Integers, Sequences, FiniteSets, TLC

VARIABLES
    \* frame of one divvy_by_confidence generator
    one_class_chunk,       \* argument: sequence of rows, each a 4-tuple
    step_key,              \* argument: 4-tuple of <<min_step, max_size>>
    pad,                   \* argument
    stability_threshold,   \* argument
    gen_pc,                \* "none" | "created" | "loop" | "exhausted" | "raised"
    gen_error,             \* "none" | "IndexError" | "ValueError"
    main_class,            \* locals of lines 13-20
    min_step,
    max_size,
    cumulative_diffs,
    padded_seq_end,
    i,                     \* the value range() of line 21 hands out next
    end_of_last_yield,
    cdiff_at_last_yield,
    yielded,               \* the PreHints yielded so far, in yield order
    \* frame of main
    args,                  \* the parsed command line
    main_pc,               \* "off" | "parsed" | "streaming" | "in_region" | "closed" | "crashed"
    hint_step_key,
    contiguous_bit,
    pred_chunk_start,
    pred_chunk_end,
    start_conf,
    end_conf,
    regions_done,
    hints_out,             \* the records written to the hints file, in order
    \* one call of start_end_strand
    pre_hint,
    gff

genVars == <<one_class_chunk, step_key, pad, stability_threshold, gen_pc, gen_error,
             main_class, min_step, max_size, cumulative_diffs, padded_seq_end,
             i, end_of_last_yield, cdiff_at_last_yield, yielded>>
mainVars == <<args, main_pc, hint_step_key, regions_done, hints_out>>
posVars == <<contiguous_bit, pred_chunk_start, pred_chunk_end, start_conf, end_conf>>
callVars == <<pre_hint, gff>>
vars == <<genVars, mainVars, posVars, callVars>>

---------------------------------------------------------------------------
\* Bounds of the model.
MaxLen == 7        \* rows of a confident sub-region
MaxPad == 3        \* padding widths 0..MaxPad
MaxStep == 2       \* step sizes up to MaxStep
MaxSize == 3       \* max interval sizes up to MaxSize
MaxOff == 1        \* rows of the prediction chunk before and after a sub-region
MaxBase == 2       \* offset of a prediction chunk's low end in its sequence
MaxRegions == 1    \* sub-regions one run of main streams

\* The rows predictions are drawn from: class 0 at 0.8 and class 1 at 0.7, so
\* that along a chunk each column is constant, changes once or changes repeatedly.
RowValues == {<<8, 2, 0, 0>>, <<3, 7, 0, 0>>}
\* Thresholds in tenths.
Thresholds == {1, 5}
\* the default stability_threshold=0.1 of divvy_by_confidence, in tenths
StabilityDefault == 1
\* What the command line can hold: argparse's type=int takes any integer.
ArgSteps == 0..MaxStep
ArgSizes == {0, MaxSize + 1}

RECURSIVE SeqsUpTo(_, _)
SeqsUpTo(S, n) ==
    IF n = 0 THEN {<< >>}
    ELSE LET shorter == SeqsUpTo(S, n - 1)
         IN  shorter \cup {Append(s, x) : s \in {t \in shorter : Len(t) = n - 1}, x \in S}

Chunks == SeqsUpTo(RowValues, MaxLen)
Policies == (1..MaxStep) \X (1..MaxSize)
OtherPolicy(p) == <<(p[1] % MaxStep) + 1, (p[2] % MaxSize) + 1>>
StepKeys == {<<p, OtherPolicy(p), OtherPolicy(p), OtherPolicy(p)>> : p \in Policies}

---------------------------------------------------------------------------
\* numpy and Python helpers
Abs(x) == IF x < 0 THEN -x ELSE x
Min(a, b) == IF a < b THEN a ELSE b
At(s, k) == s[k + 1]

\* a[k] on a numpy array of n elements: negative k counts from the end
NpValid(n, k) == -n <= k /\ k < n
NpAt(s, k) == IF k < 0 THEN s[Len(s) + k + 1] ELSE s[k + 1]

\* np.argmax of one row: the first index holding the maximum
ArgMax(row) ==
    CHOOSE c \in 0..(Len(row) - 1) :
        /\ \A d \in 0..(Len(row) - 1) : At(row, d) <= At(row, c)
        /\ \A d \in 0..(c - 1) : At(row, d) < At(row, c)

\* one_class_chunk[:, c]
Column(chunk, c) == [k \in 1..Len(chunk) |-> At(chunk[k], c)]

\* np.abs(p[:-1] - p[1:])
Diffs(p) == [k \in 1..(IF Len(p) = 0 THEN 0 ELSE Len(p) - 1) |-> Abs(p[k] - p[k + 1])]

RECURSIVE SumTo(_, _)
SumTo(s, n) == IF n = 0 THEN 0 ELSE SumTo(s, n - 1) + s[n]

\* np.cumsum
CumSum(s) == [k \in 1..Len(s) |-> SumTo(s, k)]

\* np.mean(p[start:end]) as <<sum, count>>; the slice clips at the array's ends
Mean(p, start, end) ==
    LET lo == Min(start, Len(p))
        hi == Min(end, Len(p))
        n  == IF hi > lo THEN hi - lo ELSE 0
    IN  <<SumTo(p, lo + n) - SumTo(p, lo), n>>

\* i in range(start, stop, step), given that i = start + k*step
InRange(j, stop, step) == IF step > 0 THEN j < stop ELSE j > stop

---------------------------------------------------------------------------
\* divvy_by_confidence, lines 11-36

\* line 22 advancing by one row instead of by min_step
CandidateEnd_OneRow(j) == Min(j + 1, padded_seq_end)

\* line 22
CandidateEnd(j) == Min(j + min_step, padded_seq_end)

\* line 26: the quantity compared with stability_threshold at the boundary end
VolatilitySinceYield(end) == NpAt(cumulative_diffs, end) - cdiff_at_last_yield

\* lines 26-28 without the volatility test of line 26
ShouldYield_IgnoresVolatility(end) ==
    \/ end - end_of_last_yield > max_size
    \/ end = padded_seq_end

\* lines 26-28
ShouldYield(end) ==
    \/ NpAt(cumulative_diffs, end) - cdiff_at_last_yield > stability_threshold
    \/ end - end_of_last_yield > max_size
    \/ end = padded_seq_end

\* lines 29-33
MakePreHint(end) ==
    [category   |-> main_class,
     start      |-> end_of_last_yield,
     end        |-> end,
     confidence |-> Mean(Column(one_class_chunk, main_class), end_of_last_yield, end)]

\* the generator object as the call of line 83 (or of a test) creates it: no line
\* of the body has run
NewGenerator(chunk, key, p, threshold) ==
    /\ one_class_chunk' = chunk
    /\ step_key' = key
    /\ pad' = p
    /\ stability_threshold' = threshold
    /\ gen_pc' = "created"
    /\ gen_error' = "none"
    /\ main_class' = 0
    /\ min_step' = 0
    /\ max_size' = 0
    /\ cumulative_diffs' = << >>
    /\ padded_seq_end' = 0
    /\ i' = 0
    /\ end_of_last_yield' = 0
    /\ cdiff_at_last_yield' = 0
    /\ yielded' = << >>

GenRaise(kind) ==
    /\ gen_pc' = "raised"
    /\ gen_error' = kind

\* the first next(): lines 13-21 up to the loop head
GenStart ==
    /\ gen_pc = "created"
    /\ UNCHANGED <<one_class_chunk, step_key, pad, stability_threshold, yielded>>
    /\ i' = pad
    /\ IF Len(one_class_chunk) = 0
       THEN /\ GenRaise("IndexError")                             \* line 13
            /\ UNCHANGED <<main_class, min_step, max_size, cumulative_diffs,
                           padded_seq_end, end_of_last_yield, cdiff_at_last_yield>>
       ELSE /\ main_class' = ArgMax(At(one_class_chunk, 0))
            /\ min_step' = step_key[main_class' + 1][1]
            /\ max_size' = step_key[main_class' + 1][2]
            /\ cumulative_diffs' = CumSum(Diffs(Column(one_class_chunk, main_class')))
            /\ IF ~NpValid(Len(cumulative_diffs'), pad)
               THEN /\ GenRaise("IndexError")                     \* line 18
                    /\ UNCHANGED <<padded_seq_end, end_of_last_yield,
                                   cdiff_at_last_yield>>
               ELSE /\ cdiff_at_last_yield' = NpAt(cumulative_diffs', pad)
                    /\ end_of_last_yield' = pad
                    /\ padded_seq_end' = Len(one_class_chunk) - pad
                    /\ IF min_step' = 0
                       THEN GenRaise("ValueError")                \* line 21
                       ELSE gen_pc' = "loop" /\ UNCHANGED gen_error

\* one iteration of the loop of lines 21-36; i is the value range() hands out next
GenIter ==
    /\ gen_pc = "loop"
    /\ InRange(i, padded_seq_end, min_step)
    /\ UNCHANGED <<one_class_chunk, step_key, pad, stability_threshold, main_class,
                   min_step, max_size, cumulative_diffs, padded_seq_end>>
    /\ LET end == CandidateEnd(i) IN
       IF ~NpValid(Len(cumulative_diffs), end)
       THEN /\ GenRaise("IndexError")                             \* line 26
            /\ UNCHANGED <<i, end_of_last_yield, cdiff_at_last_yield, yielded>>
       ELSE /\ i' = i + min_step
            /\ UNCHANGED <<gen_pc, gen_error>>
            /\ IF ShouldYield(end)
               THEN /\ yielded' = Append(yielded, MakePreHint(end))
                    /\ end_of_last_yield' = end
                    /\ cdiff_at_last_yield' = NpAt(cumulative_diffs, end)
               ELSE UNCHANGED <<end_of_last_yield, cdiff_at_last_yield, yielded>>

\* the range of line 21 is used up: the generator returns
GenStop ==
    /\ gen_pc = "loop"
    /\ ~InRange(i, padded_seq_end, min_step)
    /\ gen_pc' = "exhausted"
    /\ UNCHANGED <<one_class_chunk, step_key, pad, stability_threshold, gen_error,
                   main_class, min_step, max_size, cumulative_diffs, padded_seq_end,
                   i, end_of_last_yield, cdiff_at_last_yield, yielded>>

---------------------------------------------------------------------------
\* start_end_strand without the swap of line 58
start_end_strand_NoSwap(bit, chunk_start, one_category_start, ph) ==
    IF bit.is_plus_strand
    THEN <<chunk_start + one_category_start + ph.start + 1,
           chunk_start + one_category_start + ph.end, "+">>
    ELSE <<chunk_start - one_category_start - ph.start + 1,
           chunk_start - one_category_start - ph.end, "-">>

\* start_end_strand, lines 39-60
start_end_strand(bit, chunk_start, one_category_start, ph) ==
    IF bit.is_plus_strand
    THEN LET absolute_start == chunk_start + one_category_start + ph.start
             absolute_end   == chunk_start + one_category_start + ph.end
             gff_start == absolute_start + 1
             gff_end   == absolute_end
         IN  <<gff_start, gff_end, "+">>
    ELSE LET absolute_start == chunk_start - one_category_start - ph.start
             absolute_end   == chunk_start - one_category_start - ph.end
             gff_start == absolute_start + 1
             gff_end   == absolute_end
         IN  <<gff_end, gff_start, "-">>                          \* line 58: swapped

---------------------------------------------------------------------------
\* The generator on its own: list(divvy_by_confidence(chunk, key, pad, threshold))
NoMain ==
    /\ args = [step_genicpart |-> 0, max_genicpart_size |-> 0, step_irpart |-> 0,
               max_irpart_size |-> 0, pad |-> 0, stability_threshold |-> 0]
    /\ main_pc = "off"
    /\ hint_step_key = << >>
    /\ regions_done = 0
    /\ hints_out = << >>

NoPos ==
    /\ contiguous_bit = [seqid |-> "chr1", is_plus_strand |-> TRUE]
    /\ pred_chunk_start = 0
    /\ pred_chunk_end = 0
    /\ start_conf = 0
    /\ end_conf = 0

NoCall ==
    /\ pre_hint = [category |-> 0, start |-> 0, end |-> 0, confidence |-> <<0, 0>>]
    /\ gff = << >>

InitDivvy ==
    /\ one_class_chunk \in Chunks
    /\ step_key \in StepKeys
    /\ pad \in 0..MaxPad
    /\ stability_threshold \in Thresholds
    /\ gen_pc = "created"
    /\ gen_error = "none"
    /\ main_class = 0
    /\ min_step = 0
    /\ max_size = 0
    /\ cumulative_diffs = << >>
    /\ padded_seq_end = 0
    /\ i = 0
    /\ end_of_last_yield = 0
    /\ cdiff_at_last_yield = 0
    /\ yielded = << >>
    /\ NoMain /\ NoPos /\ NoCall

DivvyStart == GenStart /\ UNCHANGED <<mainVars, posVars, callVars>>
DivvyIter == GenIter /\ UNCHANGED <<mainVars, posVars, callVars>>
DivvyStop == GenStop /\ UNCHANGED <<mainVars, posVars, callVars>>

NextDivvy == DivvyStart \/ DivvyIter \/ DivvyStop
SpecDivvy == InitDivvy /\ [][NextDivvy]_vars

---------------------------------------------------------------------------
\* One call of start_end_strand on its own.  The prediction chunk has
\* start_conf rows before the sub-region and some after it; on the reverse strand
\* its rows run against the genome, so its start is its high end.
InitResolve ==
    /\ \E strand \in BOOLEAN, base \in 0..MaxBase, len \in 1..MaxLen,
          before \in 0..MaxOff, after \in 0..MaxOff :
          /\ contiguous_bit = [seqid |-> "chr1", is_plus_strand |-> strand]
          /\ start_conf = before
          /\ end_conf = before + len
          /\ pred_chunk_start = IF strand THEN base ELSE base + before + len + after
          /\ pred_chunk_end = IF strand THEN base + before + len + after ELSE base
          /\ \E s \in 0..(len - 1), e \in 1..len :
                /\ s < e
                /\ pre_hint = [category |-> 0, start |-> s, end |-> e,
                               confidence |-> <<0, e - s>>]
    /\ gff = << >>
    /\ one_class_chunk = << >>
    /\ step_key = << >>
    /\ pad = 0
    /\ stability_threshold = 0
    /\ gen_pc = "none"
    /\ gen_error = "none"
    /\ main_class = 0
    /\ min_step = 0
    /\ max_size = 0
    /\ cumulative_diffs = << >>
    /\ padded_seq_end = 0
    /\ i = 0
    /\ end_of_last_yield = 0
    /\ cdiff_at_last_yield = 0
    /\ yielded = << >>
    /\ NoMain

\* lines 90-93, the call
Resolve ==
    /\ gff = << >>
    /\ gff' = start_end_strand(contiguous_bit, pred_chunk_start, start_conf, pre_hint)
    /\ UNCHANGED <<genVars, mainVars, posVars, pre_hint>>

NextResolve == Resolve
SpecResolve == InitResolve /\ [][NextResolve]_vars

---------------------------------------------------------------------------
\* main, lines 63-104, after the argument parsing of lines 107-120
HINTS == <<"irpart", "UTRpart", "CDSpart", "intronpart">>

\* lines 71-73
ir_step_and_max == <<args.step_irpart, args.step_irpart>>
genic_step_and_max == <<args.step_genicpart, args.step_genicpart>>
HintStepKey == <<ir_step_and_max, genic_step_and_max, genic_step_and_max,
                 genic_step_and_max>>

\* lines 86-98: the fields of one record (str() of each is left implicit)
GffFields(bit, ph, coords) ==
    <<bit.seqid, "Helixer", HINTS[ph.category + 1], coords[1], coords[2],
      ph.confidence, coords[3], ".", "source=H">>

InitMain ==
    /\ args \in [step_genicpart : ArgSteps, max_genicpart_size : ArgSizes,
                 step_irpart : ArgSteps, max_irpart_size : ArgSizes,
                 pad : 0..MaxPad, stability_threshold : Thresholds]
    /\ main_pc = "parsed"
    /\ hint_step_key = << >>
    /\ regions_done = 0
    /\ hints_out = << >>
    /\ one_class_chunk = << >>
    /\ step_key = << >>
    /\ pad = 0
    /\ stability_threshold = 0
    /\ gen_pc = "none"
    /\ gen_error = "none"
    /\ main_class = 0
    /\ min_step = 0
    /\ max_size = 0
    /\ cumulative_diffs = << >>
    /\ padded_seq_end = 0
    /\ i = 0
    /\ end_of_last_yield = 0
    /\ cdiff_at_last_yield = 0
    /\ yielded = << >>
    /\ NoPos /\ NoCall

\* lines 65-73: the files are opened and the step key is built
MainOpen ==
    /\ main_pc = "parsed"
    /\ main_pc' = "streaming"
    /\ hint_step_key' = HintStepKey
    /\ UNCHANGED <<args, regions_done, hints_out, genVars, posVars, callVars>>

\* lines 76-83: the next confident sub-region of the next chunk, and the call of
\* divvy_by_confidence on it (which runs none of its body yet)
MainNextRegion ==
    /\ main_pc = "streaming"
    /\ regions_done < MaxRegions
    /\ \E strand \in BOOLEAN, before \in 0..MaxOff, chunk \in Chunks :
          /\ contiguous_bit' = [seqid |-> "chr1", is_plus_strand |-> strand]
          /\ start_conf' = before
          /\ end_conf' = before + Len(chunk)
          /\ pred_chunk_start' = IF strand THEN 0 ELSE before + Len(chunk)
          /\ pred_chunk_end' = IF strand THEN before + Len(chunk) ELSE 0
          /\ NewGenerator(chunk, hint_step_key, args.pad, StabilityDefault)
    /\ main_pc' = "in_region"
    /\ UNCHANGED <<args, hint_step_key, regions_done, hints_out, callVars>>

\* line 83, the first next() of the generator; an exception leaves main
MainDivvyStart ==
    /\ main_pc = "in_region"
    /\ GenStart
    /\ main_pc' = IF gen_pc' = "raised" THEN "crashed" ELSE main_pc
    /\ UNCHANGED <<args, hint_step_key, regions_done, hints_out, posVars, callVars>>

\* line 83, one more iteration inside next(), and lines 84-100 when it yields
MainDivvyIter ==
    /\ main_pc = "in_region"
    /\ GenIter
    /\ main_pc' = IF gen_pc' = "raised" THEN "crashed" ELSE main_pc
    /\ IF Len(yielded') > Len(yielded)
       THEN /\ pre_hint' = yielded'[Len(yielded')]
            /\ gff' = start_end_strand(contiguous_bit, pred_chunk_start, start_conf,
                                       pre_hint')
            /\ hints_out' = Append(hints_out, GffFields(contiguous_bit, pre_hint', gff'))
       ELSE UNCHANGED <<pre_hint, gff, hints_out>>
    /\ UNCHANGED <<args, hint_step_key, regions_done, posVars>>

\* the generator is used up: back to the loops of lines 76-79
MainDivvyStop ==
    /\ main_pc = "in_region"
    /\ GenStop
    /\ main_pc' = "streaming"
    /\ regions_done' = regions_done + 1
    /\ UNCHANGED <<args, hint_step_key, hints_out, posVars, callVars>>

\* lines 102-104: no contiguous range is left
MainClose ==
    /\ main_pc = "streaming"
    /\ main_pc' = "closed"
    /\ UNCHANGED <<args, hint_step_key, regions_done, hints_out, genVars, posVars,
                   callVars>>

NextMain ==
    \/ MainOpen
    \/ MainNextRegion
    \/ MainDivvyStart
    \/ MainDivvyIter
    \/ MainDivvyStop
    \/ MainClose
SpecMain == InitMain /\ [][NextMain]_vars

---------------------------------------------------------------------------
\* What the claims speak of

\* the generator has returned or raised
GenFinished == gen_pc \in {"exhausted", "raised"}

\* every policy of the key has a step of at least 1
StepsPositive == \A c \in 1..Len(step_key) : step_key[c][1] >= 1

\* the pre-hints hs, in order, tile [lo, hi)
Tiles(hs, lo, hi) ==
    /\ Len(hs) >= 1
    /\ hs[1].start = lo
    /\ hs[Len(hs)].end = hi
    /\ \A k \in 1..Len(hs) : hs[k].start < hs[k].end
    /\ \A k \in 1..(Len(hs) - 1) : hs[k + 1].start = hs[k].end

\* the dominant-class probabilities of the sub-region, and their changes:
\* Changes[j + 1] is |p[j] - p[j+1]| for the 0-based row j
DominantColumn == Column(one_class_chunk, main_class)
Changes == Diffs(DominantColumn)

\* sum of |p[j] - p[j+1]| over the row pairs inside rows [start, end)
SpanVolatility(start, end) ==
    IF end - start < 2 THEN 0 ELSE SumTo(Changes, end - 1) - SumTo(Changes, start)

\* C1: for a sub-region longer than 2*pad and steps of at least 1, the PreHints
\* divvy_by_confidence yields, in yield order, tile [pad, L-pad) exactly.
C1_TilesInterior ==
    (GenFinished /\ Len(one_class_chunk) > 2 * pad /\ StepsPositive)
        => (gen_pc = "exhausted" /\ Tiles(yielded, pad, Len(one_class_chunk) - pad))

\* the inputs of the call of start_end_strand are those the claims C2-C4 cover
ResolveInputsOk ==
    /\ pred_chunk_start >= 0
    /\ start_conf >= 0
    /\ 0 <= pre_hint.start
    /\ pre_hint.start < pre_hint.end
    /\ ~contiguous_bit.is_plus_strand => pred_chunk_start >= start_conf + pre_hint.end

Resolved == main_pc = "off" /\ gen_pc = "none" /\ gff # << >>

\* C2: every Hint start_end_strand returns has gff_start <= gff_end and both at
\* least 1, on both strands.
C2_OneBasedOrdered ==
    (Resolved /\ ResolveInputsOk) => (gff[1] <= gff[2] /\ gff[1] >= 1 /\ gff[2] >= 1)

\* the mirror of the resolved call: the same genomic positions with the rows in
\* reversed order, the strand flipped and the chunk start taken at the other end
MirrorBit == [contiguous_bit EXCEPT !.is_plus_strand = ~contiguous_bit.is_plus_strand]
MirrorChunkStart == pred_chunk_end
ChunkRows == Abs(pred_chunk_end - pred_chunk_start)
MirrorStartConf == ChunkRows - end_conf
MirrorPreHint ==
    [pre_hint EXCEPT !.start = (end_conf - start_conf) - pre_hint.end,
                     !.end = (end_conf - start_conf) - pre_hint.start]
MirrorGff == start_end_strand(MirrorBit, MirrorChunkStart, MirrorStartConf, MirrorPreHint)

\* C3: a PreHint and its mirrored PreHint resolve to the same gff_start and
\* gff_end with the opposite strand label.
C3_StrandSymmetry ==
    (Resolved /\ ResolveInputsOk)
        => (MirrorGff[1] = gff[1] /\ MirrorGff[2] = gff[2] /\ MirrorGff[3] # gff[3])

\* the formula of section 4.5 of the specification
ReferenceCoords(plus, chunk_start, subregion_start, s, e) ==
    IF plus
    THEN <<chunk_start + subregion_start + s + 1, chunk_start + subregion_start + e, "+">>
    ELSE LET raw_start == chunk_start - subregion_start - s
             raw_end   == chunk_start - subregion_start - e
         IN  <<raw_end, raw_start + 1, "-">>

C5_Boundary ==
    (GenFinished /\ StepsPositive) =>
        /\ Len(one_class_chunk) = 2 * pad
              => (gen_pc = "exhausted" /\ yielded = << >>)
        /\ Len(one_class_chunk) = 2 * pad + 1
              => (/\ gen_pc = "exhausted"
                  /\ Len(yielded) = 1
                  /\ yielded[1].start = pad
                  /\ yielded[1].end = pad + 1)

InnerBoundaries(h) ==
    {b \in (h.start + 1)..(h.end - 1) : (b - h.start) % min_step = 0}

C7_MaxSize ==
    \A k \in 1..Len(yielded) :
        (1 <= min_step /\ min_step <= max_size)
            => yielded[k].end - yielded[k].start <= max_size

\* the command line holds positive steps and sizes
ConfigPositive ==
    /\ args.step_irpart > 0
    /\ args.max_irpart_size > 0
    /\ args.step_genicpart > 0
    /\ args.max_genicpart_size > 0

\* C8: a sub-region of fewer than 2*pad rows handed to the loop of main gives no
\* hint and no error, and main goes on.
C8_DegenerateSkipped ==
    (/\ main_pc \in {"in_region", "streaming", "crashed", "closed"}
     /\ gen_pc \in {"exhausted", "raised"}
     /\ ConfigPositive
     /\ Len(one_class_chunk) < 2 * pad)
        => (gen_error = "none" /\ main_pc # "crashed" /\ hints_out = << >>)

\* C9: with a non-positive step or max size main never reaches its streaming loop
\* and writes nothing.
C9_ConfigRejected ==
    (main_pc \in {"streaming", "in_region", "crashed"} \/ hints_out # << >>)
        => ConfigPositive

\* C10: the policy applied to a sub-region of category c is the configured
\* (step, max size) of the intergenic category for c = 0 and of the genic
\* categories for c in {1, 2, 3}.
C10_CategoryPolicy ==
    (main_pc = "in_region" /\ gen_pc = "loop")
        => <<min_step, max_size>> =
               IF main_class = 0
               THEN <<args.step_irpart, args.max_irpart_size>>
               ELSE <<args.step_genicpart, args.max_genicpart_size>>

\* C11: the threshold every divvy_by_confidence call made by main compares the
\* cumulative volatility with is the configured stability threshold.
C11_ThresholdUsed ==
    (main_pc \in {"in_region", "streaming", "crashed", "closed"} /\ gen_pc # "none")
        => stability_threshold = args.stability_threshold

\* the class whose probability the generator follows, from the argument alone
FirstRowClass == ArgMax(At(one_class_chunk, 0))

\* the probability of class c is the same in every row of the sub-region
ConstantColumn(c) ==
    \A k \in 1..Len(one_class_chunk) : At(one_class_chunk[k], c) = At(one_class_chunk[1], c)

\* C12: a sub-region whose dominant-class probability is the same constant c in
\* every row and whose interior is non-empty and at most max_size long gives
\* exactly one PreHint, [pad, L-pad), with confidence c.
C12_StableCoalesced ==
    (/\ GenFinished
     /\ StepsPositive
     /\ Len(one_class_chunk) > 2 * pad
     /\ ConstantColumn(FirstRowClass)
     /\ Len(one_class_chunk) - 2 * pad <= step_key[FirstRowClass + 1][2])
        => (/\ gen_pc = "exhausted"
            /\ Len(yielded) = 1
            /\ yielded[1].start = pad
            /\ yielded[1].end = Len(one_class_chunk) - pad
            /\ yielded[1].confidence[1]
                   = At(one_class_chunk[1], FirstRowClass) * yielded[1].confidence[2])

\* the candidate boundaries before the padded end, pad + k*min_step with k >= 1,
\* that cumulative_diffs can be read at
CandidateBoundaries ==
    {b \in (pad + 1)..(padded_seq_end - 1) :
        (b - pad) % min_step = 0 /\ NpValid(Len(cumulative_diffs), b)}

\* at every candidate boundary the volatility the generator measures over the
\* step that ends there exceeds the threshold
VolatileAtEveryBoundary ==
    \A b \in CandidateBoundaries :
        NpAt(cumulative_diffs, b) - NpAt(cumulative_diffs, b - min_step)
            > stability_threshold

\* C13: every yielded PreHint starts at pad + k*min_step, every PreHint but the
\* last has a length that is a positive multiple of min_step, and where the
\* volatility exceeds the threshold at every candidate boundary every PreHint but
\* the last has length min_step.
C13_StepGranularity ==
    /\ \A k \in 1..Len(yielded) :
          /\ yielded[k].start >= pad
          /\ (yielded[k].start - pad) % min_step = 0
    /\ \A k \in 1..(Len(yielded) - 1) :
          /\ yielded[k].end > yielded[k].start
          /\ (yielded[k].end - yielded[k].start) % min_step = 0
          /\ VolatileAtEveryBoundary => yielded[k].end - yielded[k].start = min_step

\* the generator returned several PreHints, two rows a step, from a sub-region
\* volatile at every candidate boundary
C13_Witness ==
    /\ gen_pc = "exhausted"
    /\ min_step = 2
    /\ CandidateBoundaries # {}
    /\ VolatileAtEveryBoundary
    /\ Len(yielded) >= 2

\* the rows of the scored interior [pad, L-pad), 0-based
InteriorRows == pad..(Len(one_class_chunk) - pad - 1)

\* class c is the arg-max of every row of the interior
DominatesInterior(c) == \A r \in InteriorRows : ArgMax(At(one_class_chunk, r)) = c

\* C14: where one class is the arg-max on the whole interior, the category of
\* every PreHint is that class, whatever the arg-max is in the pad-wide margins.
C14_DominantClass ==
    \A k \in 1..Len(yielded) :
        \A c \in 0..3 :
            (InteriorRows # {} /\ DominatesInterior(c)) => yielded[k].category = c

\* C15: the quantity compared with stability_threshold at a candidate boundary is
\* the sum of |p[j] - p[j+1]| over the row pairs inside the pending span
\* [end_of_last_yield, end), j from end_of_last_yield to end-2.
C15_VolatilityWindow ==
    (/\ gen_pc = "loop"
     /\ InRange(i, padded_seq_end, min_step)
     /\ NpValid(Len(cumulative_diffs), CandidateEnd(i)))
        => VolatilitySinceYield(CandidateEnd(i))
               = SpanVolatility(end_of_last_yield, CandidateEnd(i))

\* the closed interval of the k-th record written, and the rows of its PreHint
OutStart(k) == hints_out[k][4]
OutEnd(k) == hints_out[k][5]

\* C16: the closed output intervals of two distinct PreHints of one sub-region
\* share no position, and each holds exactly prehint.end - prehint.start positions.
C16_OutputDisjoint ==
    (main_pc \in {"in_region", "streaming", "crashed", "closed"}
     /\ Len(hints_out) = Len(yielded))
        => /\ \A a \in 1..Len(hints_out) :
                 OutEnd(a) - OutStart(a) + 1 = yielded[a].end - yielded[a].start
           /\ \A a \in 1..Len(hints_out) : \A b \in 1..Len(hints_out) :
                 a # b => (OutEnd(a) < OutStart(b) \/ OutEnd(b) < OutStart(a))

===========================================================================
